---- MODULE Spec2Model ----
(***************************************************************************)
(* GhostTimer: the countdown Timer state machine (src/models/timer.rs),    *)
(* the AppState operations that drive it and that handle hover, drag,      *)
(* transparency, hotkeys and the configuration (src/models/app_state.rs),  *)
(* and the tick section of the host update loop (src/main.rs).             *)
(*                                                                         *)
(* Time.  Instants and Durations are natural numbers counted in units of   *)
(* 100 ms, the period of the host loop.  `now` is the monotonic clock      *)
(* read by Instant::now() and Instant::elapsed(); every operation runs at  *)
(* one instant, and Advance moves the clock between operations.            *)
(***************************************************************************)
EXTENDS Integers, FiniteSets, Sequences, TLC

(* ------------------------------- bounds -------------------------------- *)

\* Short durations 1..MaxShort are offered to start next to the 24 h edge.
MaxShort == 2

\* The clock visits 0..MaxSkew and MaxDuration + (0..MaxSkew).
MaxSkew == 3

\* In the hover/drag specification the clock stops at MaxUiClock.
MaxUiClock == 1

\* A drag starts only while the window is no further than MaxReach from the
\* origin.
MaxReach == 1000

\* At most MaxMonitors monitors are added to the display context.
MaxMonitors == 2

(* -------------------------- program constants -------------------------- *)

\* Duration::from_secs(24 * 60 * 60), in units of 100 ms.
MaxDuration == 24 * 60 * 60 * 10

\* Duration::from_millis(100), in units of 100 ms.
TickInterval == 1

\* Duration::from_secs(300), the hotkey's default duration, in units of 100 ms.
DefaultHotkeyDuration == 300 * 10

\* Option::None for an Instant or a Duration.
None == -1

(* ----------------------------- input sets ------------------------------ *)

Durations == (0 .. MaxShort) \cup {MaxDuration, MaxDuration + 1}

Instants == (0 .. MaxSkew) \cup {MaxDuration + k : k \in 0 .. MaxSkew}

LastInstant == MaxDuration + MaxSkew

(* ------------------------------ TimerState ----------------------------- *)

Stopped == [kind |-> "Stopped", started_at |-> None, remaining_duration |-> None]

Running(at, d) == [kind |-> "Running", started_at |-> at, remaining_duration |-> d]

Paused(d) == [kind |-> "Paused", started_at |-> None, remaining_duration |-> d]

Finished == [kind |-> "Finished", started_at |-> None, remaining_duration |-> None]

(* ------------------------- Configuration, UiState ---------------------- *)

\* f32 values are counted in hundredths (0.3 is 30); NaN is the one value that
\* is neither below nor above any other.
NaN == 1000000

f32_lt(a, b) == a # NaN /\ b # NaN /\ a < b

f32_gt(a, b) == a # NaN /\ b # NaN /\ a > b

\* Option<String> and Option<(f32, f32)>: the empty tuple is None.
Nothing == <<>>

Some(v) == <<v>>

HotkeyConfig_default ==
    [toggle_visibility |-> Some("Ctrl+Alt+T"),
     start_stop |-> Some("Ctrl+Alt+S"),
     reset |-> Some("Ctrl+Alt+R")]

DisplayConfig_default ==
    [transparency |-> 30, hover_transparency |-> 80, position |-> <<100, 100>>,
     show_controls |-> TRUE]

BehaviorConfig_default == [remember_position |-> TRUE]

NotificationConfig_default == [sound_file |-> Nothing]

Configuration_default ==
    [display |-> DisplayConfig_default,
     behavior |-> BehaviorConfig_default,
     hotkeys |-> HotkeyConfig_default,
     notifications |-> NotificationConfig_default]

\* ValidationError: one record shape for the four variants.
InvalidTransparency(value) ==
    [kind |-> "InvalidTransparency", alpha |-> value, x |-> 0, y |-> 0, text |-> ""]

InvalidPosition(px, py) ==
    [kind |-> "InvalidPosition", alpha |-> 0, x |-> px, y |-> py, text |-> ""]

InvalidHotkey(keys) ==
    [kind |-> "InvalidHotkey", alpha |-> 0, x |-> 0, y |-> 0, text |-> keys]

InvalidSoundFile(path) ==
    [kind |-> "InvalidSoundFile", alpha |-> 0, x |-> 0, y |-> 0, text |-> path]

\* The errors pushed under a condition: one error or none.
pushed(condition, error) == IF condition THEN <<error>> ELSE <<>>

\* DisplayConfig::validate without the comparison of the two transparencies
DisplayConfig_validate_ranges_only(display) ==
    pushed(f32_lt(display.transparency, 0) \/ f32_gt(display.transparency, 100),
           InvalidTransparency(display.transparency))
    \o pushed(f32_lt(display.hover_transparency, 0)
                  \/ f32_gt(display.hover_transparency, 100),
              InvalidTransparency(display.hover_transparency))
    \o pushed(\/ display.position[1] < -5000 \/ display.position[1] > 10000
              \/ display.position[2] < -5000 \/ display.position[2] > 10000,
              InvalidPosition(display.position[1], display.position[2]))

DisplayConfig_validate(display) ==
    pushed(f32_lt(display.transparency, 0) \/ f32_gt(display.transparency, 100),
           InvalidTransparency(display.transparency))
    \o pushed(f32_lt(display.hover_transparency, 0)
                  \/ f32_gt(display.hover_transparency, 100),
              InvalidTransparency(display.hover_transparency))
    \o pushed(f32_lt(display.hover_transparency, display.transparency),
              InvalidTransparency(display.hover_transparency))
    \o pushed(\/ display.position[1] < -5000 \/ display.position[1] > 10000
              \/ display.position[2] < -5000 \/ display.position[2] > 10000,
              InvalidPosition(display.position[1], display.position[2]))

\* str::contains, str::starts_with and str::ends_with.
str_contains(text, part) ==
    \E i \in 1 .. Len(text) - Len(part) + 1 :
        SubSeq(text, i, i + Len(part) - 1) = part

starts_with(text, part) ==
    Len(part) <= Len(text) /\ SubSeq(text, 1, Len(part)) = part

ends_with(text, part) ==
    /\ Len(part) <= Len(text)
    /\ SubSeq(text, Len(text) - Len(part) + 1, Len(text)) = part

is_valid_hotkey(keys) ==
    /\ keys # ""
    /\ ~str_contains(keys, "++")
    /\ ~starts_with(keys, "+")
    /\ ~ends_with(keys, "+")

HotkeyConfig_validate(hotkeys) ==
    LET slot(option) ==
            IF option = Nothing THEN <<>>
            ELSE pushed(~is_valid_hotkey(option[1]), InvalidHotkey(option[1]))
    IN  slot(hotkeys.toggle_visibility) \o slot(hotkeys.start_stop) \o slot(hotkeys.reset)

\* existing is the set of paths at which the file system holds a file.
NotificationConfig_validate(notifications, existing) ==
    IF notifications.sound_file = Nothing THEN <<>>
    ELSE pushed(/\ notifications.sound_file[1] # ""
                /\ notifications.sound_file[1] \notin existing,
                InvalidSoundFile(notifications.sound_file[1]))

\* Configuration::validate.
validate(c, existing) ==
    DisplayConfig_validate(c.display)
    \o HotkeyConfig_validate(c.hotkeys)
    \o NotificationConfig_validate(c.notifications, existing)

UiState_new ==
    [is_visible |-> TRUE, is_hovered |-> FALSE, is_dragging |-> FALSE,
     drag_offset |-> Nothing, context_menu_open |-> FALSE,
     settings_window_open |-> FALSE, controls_visible |-> FALSE]

\* MonitorInfo::new; bounds are <<x, y, width, height>>.  A DPI scale is
\* counted in quarters (1.0 is 4, 1.5 is 6).
MonitorInfo_new(bounds, scale_factor, is_primary) ==
    [bounds |-> bounds, scale_factor |-> scale_factor, is_primary |-> is_primary]

\* DisplayContext::new(); monitors is the Vec as a sequence, current_monitor
\* its 0-based index.
DisplayContext_new == [monitors |-> <<>>, current_monitor |-> 0, dpi_scale |-> 4]

(* -------------------------------- state -------------------------------- *)

VARIABLES
    now,                    \* the monotonic clock
    timer,                  \* AppState.timer: [state, original_duration, completion_time]
    notification_triggered, \* AppState.notification_triggered
    last_interaction,       \* AppState.ui_state.last_interaction
    last_tick,              \* TimerApp.last_tick
    last_timer_state,       \* TimerApp.last_timer_state
    last_call,              \* the last operation called, its argument and what it returned
    ui_state,               \* AppState.ui_state, last_interaction apart
    config,                 \* AppState.config
    config_dirty,           \* AppState.config_dirty
    last_started,           \* history: the duration of the last successful start, if any
    run_time,               \* history: the time spent Running since the last successful start
    display_context,        \* AppState.display_context: [monitors, current_monitor, dpi_scale]
    query,                  \* history: the last DisplayContext query, its arguments and value
    mutated                 \* history: the configuration's value changed since the last save

vars == <<now, timer, notification_triggered, last_interaction, last_tick,
          last_timer_state, last_call, ui_state, config, config_dirty, last_started, run_time,
          display_context, query, mutated>>

app_state == <<timer, notification_triggered, last_interaction, ui_state, config, config_dirty>>

(* -------------------------------- Timer -------------------------------- *)

Timer_new == [state |-> Stopped, original_duration |-> 0, completion_time |-> None]

\* validate_duration without the zero check
validate_duration_accepts_zero(duration) ==
    IF duration > MaxDuration THEN "InvalidDuration" ELSE "Ok"

validate_duration(duration) ==
    IF duration = 0 THEN "InvalidDuration"
    ELSE IF duration > MaxDuration THEN "InvalidDuration"
    ELSE "Ok"

\* calculate_remaining_time without the clamp at zero
calculate_remaining_time_unclamped(started_at, original_duration, at) ==
    original_duration - (at - started_at)

\* started_at.elapsed() read at instant `at`
calculate_remaining_time(started_at, original_duration, at) ==
    LET elapsed == at - started_at
    IN  IF elapsed >= original_duration THEN 0 ELSE original_duration - elapsed

\* start that keeps the completion_time of the previous countdown
start_keeps_completion_time(t, duration, at) ==
    IF validate_duration(duration) # "Ok"
    THEN [timer |-> t, result |-> validate_duration(duration)]
    ELSE IF t.state.kind \in {"Stopped", "Finished"}
    THEN [timer |-> [t EXCEPT !.state = Running(at, duration),
                              !.original_duration = duration],
          result |-> "Ok"]
    ELSE [timer |-> t, result |-> "InvalidState"]

\* start that also restarts a Paused timer
start_restarts_paused(t, duration, at) ==
    IF validate_duration(duration) # "Ok"
    THEN [timer |-> t, result |-> validate_duration(duration)]
    ELSE IF t.state.kind \in {"Stopped", "Finished", "Paused"}
    THEN [timer |-> [state |-> Running(at, duration),
                     original_duration |-> duration,
                     completion_time |-> None],
          result |-> "Ok"]
    ELSE [timer |-> t, result |-> "InvalidState"]

\* start that leaves original_duration as it was
start_without_original_duration(t, duration, at) ==
    IF validate_duration(duration) # "Ok"
    THEN [timer |-> t, result |-> validate_duration(duration)]
    ELSE IF t.state.kind \in {"Stopped", "Finished"}
    THEN [timer |-> [t EXCEPT !.state = Running(at, duration),
                              !.completion_time = None],
          result |-> "Ok"]
    ELSE [timer |-> t, result |-> "InvalidState"]

start(t, duration, at) ==
    IF validate_duration(duration) # "Ok"
    THEN [timer |-> t, result |-> validate_duration(duration)]
    ELSE IF t.state.kind \in {"Stopped", "Finished"}
    THEN [timer |-> [state |-> Running(at, duration),
                     original_duration |-> duration,
                     completion_time |-> None],
          result |-> "Ok"]
    ELSE [timer |-> t, result |-> "InvalidState"]

\* pause that counts the interval in progress as spent
pause_rounds_elapsed_up(t, at) ==
    IF t.state.kind = "Running"
    THEN LET current_remaining ==
                 calculate_remaining_time(t.state.started_at, t.state.remaining_duration,
                                          at + TickInterval)
         IN  [timer |-> [t EXCEPT !.state = Paused(current_remaining)], result |-> "Ok"]
    ELSE [timer |-> t, result |-> "InvalidState"]

pause(t, at) ==
    IF t.state.kind = "Running"
    THEN LET current_remaining ==
                 calculate_remaining_time(t.state.started_at, t.state.remaining_duration, at)
         IN  [timer |-> [t EXCEPT !.state = Paused(current_remaining)], result |-> "Ok"]
    ELSE [timer |-> t, result |-> "InvalidState"]

\* resume that restarts the countdown from the started duration
resume_from_original(t, at) ==
    IF t.state.kind = "Paused"
    THEN [timer |-> [t EXCEPT !.state = Running(at, t.original_duration)],
          result |-> "Ok"]
    ELSE [timer |-> t, result |-> "InvalidState"]

resume(t, at) ==
    IF t.state.kind = "Paused"
    THEN [timer |-> [t EXCEPT !.state = Running(at, t.state.remaining_duration)],
          result |-> "Ok"]
    ELSE [timer |-> t, result |-> "InvalidState"]

\* reset that keeps the completion time
reset_keeps_completion_time(t) == [t EXCEPT !.state = Stopped, !.original_duration = 0]

\* reset that keeps the last duration
reset_keeps_duration(t) == [t EXCEPT !.state = Stopped, !.completion_time = None]

reset(t) == [state |-> Stopped, original_duration |-> 0, completion_time |-> None]

\* remaining_time that reports only a Running countdown
remaining_time_running_only(t, at) ==
    IF t.state.kind = "Running"
    THEN calculate_remaining_time(t.state.started_at, t.state.remaining_duration, at)
    ELSE None

remaining_time(t, at) ==
    IF t.state.kind = "Running"
    THEN calculate_remaining_time(t.state.started_at, t.state.remaining_duration, at)
    ELSE IF t.state.kind = "Paused" THEN t.state.remaining_duration
    ELSE None

is_finished(t) == t.state.kind = "Finished"

\* tick that does not record the completion time
tick_without_completion_time(t, at) ==
    IF t.state.kind = "Running"
    THEN LET current_remaining ==
                 calculate_remaining_time(t.state.started_at, t.state.remaining_duration, at)
         IN  IF current_remaining = 0
             THEN [timer |-> [t EXCEPT !.state = Finished], result |-> TRUE]
             ELSE [timer |-> t, result |-> FALSE]
    ELSE [timer |-> t, result |-> FALSE]

\* tick that finishes only when it runs exactly at the deadline
tick_only_at_deadline(t, at) ==
    IF t.state.kind = "Running"
    THEN IF at - t.state.started_at = t.state.remaining_duration
         THEN [timer |-> [t EXCEPT !.state = Finished, !.completion_time = at],
               result |-> TRUE]
         ELSE [timer |-> t, result |-> FALSE]
    ELSE [timer |-> t, result |-> FALSE]

\* tick that finishes one tick interval early
tick_one_interval_early(t, at) ==
    IF t.state.kind = "Running"
    THEN LET current_remaining ==
                 calculate_remaining_time(t.state.started_at, t.state.remaining_duration, at)
         IN  IF current_remaining <= TickInterval
             THEN [timer |-> [t EXCEPT !.state = Finished, !.completion_time = at],
                   result |-> TRUE]
             ELSE [timer |-> t, result |-> FALSE]
    ELSE [timer |-> t, result |-> FALSE]

tick(t, at) ==
    IF t.state.kind = "Running"
    THEN LET current_remaining ==
                 calculate_remaining_time(t.state.started_at, t.state.remaining_duration, at)
         IN  IF current_remaining = 0
             THEN [timer |-> [t EXCEPT !.state = Finished, !.completion_time = at],
                   result |-> TRUE]
             ELSE [timer |-> t, result |-> FALSE]
    ELSE [timer |-> t, result |-> FALSE]

(* ---------------------------- DisplayContext --------------------------- *)

\* A call that takes coordinates, and the coordinates it returned, if any.
Asked(args, value) == [args |-> args, value |-> value]

\* i32::max and i32::min of two values.
max(a, b) == IF a >= b THEN a ELSE b

min(a, b) == IF a <= b THEN a ELSE b

\* contains that takes the right and bottom edges in
contains_closed(monitor, x, y) ==
    LET mx == monitor.bounds[1]
        my == monitor.bounds[2]
        mw == monitor.bounds[3]
        mh == monitor.bounds[4]
    IN  x >= mx /\ x <= mx + mw /\ y >= my /\ y <= my + mh

\* The test of monitor_at_point's loop body.
contains(monitor, x, y) ==
    LET mx == monitor.bounds[1]
        my == monitor.bounds[2]
        mw == monitor.bounds[3]
        mh == monitor.bounds[4]
    IN  x >= mx /\ x < mx + mw /\ y >= my /\ y < my + mh

primary_monitor(dc) ==
    LET found == {i \in 1 .. Len(dc.monitors) : dc.monitors[i].is_primary}
    IN  IF found = {} THEN Nothing
        ELSE Some(dc.monitors[CHOOSE i \in found : \A j \in found : i <= j])

current_monitor(dc) ==
    IF dc.current_monitor < Len(dc.monitors)
    THEN Some(dc.monitors[dc.current_monitor + 1])
    ELSE Nothing

\* Some(<<index, monitor>>) for the first monitor that contains the point.
monitor_at_point(dc, x, y) ==
    LET found == {i \in 1 .. Len(dc.monitors) : contains(dc.monitors[i], x, y)}
        first == CHOOSE i \in found : \A j \in found : i <= j
    IN  IF found = {} THEN Nothing ELSE Some(<<first - 1, dc.monitors[first]>>)

update_current_monitor(dc, x, y) ==
    LET at == monitor_at_point(dc, x, y)
    IN  IF at = Nothing THEN dc
        ELSE [dc EXCEPT !.current_monitor = at[1][1],
                        !.dpi_scale = dc.monitors[at[1][1] + 1].scale_factor]

\* Option::or_else.
or_else(option, other) == IF option = Nothing THEN other ELSE option

\* constrain_position that prefers the current monitor to the one that holds
\* the point
constrain_position_current_first(dc, x, y, window_width, window_height) ==
    LET at == monitor_at_point(dc, x, y)
        target_monitor ==
            or_else(or_else(or_else(current_monitor(dc),
                                    IF at = Nothing THEN Nothing ELSE Some(at[1][2])),
                            primary_monitor(dc)),
                    IF dc.monitors = <<>> THEN Nothing ELSE Some(dc.monitors[1]))
    IN  IF target_monitor # Nothing
        THEN LET mx == target_monitor[1].bounds[1]
                 my == target_monitor[1].bounds[2]
                 mw == target_monitor[1].bounds[3]
                 mh == target_monitor[1].bounds[4]
             IN  <<min(max(x, mx), mx + mw - max(window_width, 50)),
                   min(max(y, my), my + mh - max(window_height, 50))>>
        ELSE <<max(x, 0), max(y, 0)>>

\* constrain_position that prefers the primary monitor to the current one
constrain_position_primary_first(dc, x, y, window_width, window_height) ==
    LET at == monitor_at_point(dc, x, y)
        target_monitor ==
            or_else(or_else(or_else(IF at = Nothing THEN Nothing ELSE Some(at[1][2]),
                                    primary_monitor(dc)),
                            current_monitor(dc)),
                    IF dc.monitors = <<>> THEN Nothing ELSE Some(dc.monitors[1]))
    IN  IF target_monitor # Nothing
        THEN LET mx == target_monitor[1].bounds[1]
                 my == target_monitor[1].bounds[2]
                 mw == target_monitor[1].bounds[3]
                 mh == target_monitor[1].bounds[4]
             IN  <<min(max(x, mx), mx + mw - max(window_width, 50)),
                   min(max(y, my), my + mh - max(window_height, 50))>>
        ELSE <<max(x, 0), max(y, 0)>>

\* constrain_position that leaves out the lower clamp
constrain_position_upper_only(dc, x, y, window_width, window_height) ==
    LET at == monitor_at_point(dc, x, y)
        target_monitor ==
            or_else(or_else(or_else(IF at = Nothing THEN Nothing ELSE Some(at[1][2]),
                                    current_monitor(dc)),
                            primary_monitor(dc)),
                    IF dc.monitors = <<>> THEN Nothing ELSE Some(dc.monitors[1]))
    IN  IF target_monitor # Nothing
        THEN LET mx == target_monitor[1].bounds[1]
                 my == target_monitor[1].bounds[2]
                 mw == target_monitor[1].bounds[3]
                 mh == target_monitor[1].bounds[4]
             IN  <<min(x, mx + mw - max(window_width, 50)),
                   min(y, my + mh - max(window_height, 50))>>
        ELSE <<max(x, 0), max(y, 0)>>

constrain_position(dc, x, y, window_width, window_height) ==
    LET at == monitor_at_point(dc, x, y)
        target_monitor ==
            or_else(or_else(or_else(IF at = Nothing THEN Nothing ELSE Some(at[1][2]),
                                    current_monitor(dc)),
                            primary_monitor(dc)),
                    IF dc.monitors = <<>> THEN Nothing ELSE Some(dc.monitors[1]))
    IN  IF target_monitor # Nothing
        THEN LET mx == target_monitor[1].bounds[1]
                 my == target_monitor[1].bounds[2]
                 mw == target_monitor[1].bounds[3]
                 mh == target_monitor[1].bounds[4]
             IN  <<min(max(x, mx), mx + mw - max(window_width, 50)),
                   min(max(y, my), my + mh - max(window_height, 50))>>
        ELSE <<max(x, 0), max(y, 0)>>

\* `v as f32` for an i32 v: every integer up to 2^24 in magnitude is an f32;
\* above, v is rounded to 24 significant bits, ties to even.
i32_as_f32(v) ==
    LET a == IF v < 0 THEN -v ELSE v
        k == CHOOSE e \in 24 .. 29 : 2^e <= a /\ a < 2^(e + 1)
        ulp == 2^(k - 23)
        q == a \div ulp
        r == a % ulp
        m == IF 2 * r < ulp THEN q
             ELSE IF 2 * r > ulp THEN q + 1
             ELSE IF q % 2 = 0 THEN q ELSE q + 1
    IN  IF a <= 2^24 THEN v
        ELSE IF v < 0 THEN -(m * ulp) ELSE m * ulp

\* `(n / d) as i32` for the f32 quotient of two integers, d > 0: the fraction
\* is dropped (rounding toward zero).
f32_as_i32(n, d) == IF n >= 0 THEN n \div d ELSE -((-n) \div d)

logical_to_physical(dc, logical_x, logical_y) ==
    <<f32_as_i32(i32_as_f32(logical_x) * dc.dpi_scale, 4),
      f32_as_i32(i32_as_f32(logical_y) * dc.dpi_scale, 4)>>

physical_to_logical(dc, physical_x, physical_y) ==
    <<f32_as_i32(i32_as_f32(physical_x) * 4, dc.dpi_scale),
      f32_as_i32(i32_as_f32(physical_y) * 4, dc.dpi_scale)>>

(* ------------------------------- AppState ------------------------------ *)

\* A call of a Result-returning operation and what it returned.
Call(op, arg, result) ==
    [op |-> op, arg |-> arg, keys |-> "", result |-> result, state_changed |-> FALSE,
     played |-> FALSE, config |-> Nothing]

\* A call of a ticking operation: the bool it returned, and whether the host
\* played the notification sound.
Ticked(op, state_changed, played) ==
    [op |-> op, arg |-> None, keys |-> "", result |-> "Ok", state_changed |-> state_changed,
     played |-> played, config |-> Nothing]

\* tick_timer that returns the change without raising the notification flag
tick_timer_of_without_flag(t, flag, at) ==
    LET r == tick(t, at)
    IN  [timer |-> r.timer, notification_triggered |-> flag, result |-> r.result]

\* AppState::tick_timer as a function of the timer and the flag
tick_timer_of(t, flag, at) ==
    LET r == tick(t, at)
    IN  [timer |-> r.timer,
         notification_triggered |-> IF r.result /\ is_finished(r.timer) THEN TRUE ELSE flag,
         result |-> r.result]

start_timer(duration) ==
    LET r == start(timer, duration, now)
    IN  /\ timer' = r.timer
        /\ last_interaction' = IF r.result = "Ok" THEN now ELSE last_interaction
        /\ last_call' = Call("start", duration, r.result)
        /\ last_started' = IF r.result = "Ok" THEN duration ELSE last_started
        /\ run_time' = IF r.result = "Ok" THEN 0 ELSE run_time
        /\ UNCHANGED <<now, notification_triggered, last_tick, last_timer_state>>
        /\ UNCHANGED <<ui_state, config, config_dirty, mutated, display_context, query>>

\* pause_timer that stamps the interaction before looking at the result
pause_timer_always_marks ==
    LET r == pause(timer, now)
    IN  /\ timer' = r.timer
        /\ last_interaction' = now
        /\ last_call' = Call("pause", None, r.result)
        /\ UNCHANGED <<now, notification_triggered, last_tick, last_timer_state>>
        /\ UNCHANGED <<ui_state, config, config_dirty, mutated, last_started, run_time, display_context, query>>

pause_timer ==
    LET r == pause(timer, now)
    IN  /\ timer' = r.timer
        /\ last_interaction' = IF r.result = "Ok" THEN now ELSE last_interaction
        /\ last_call' = Call("pause", None, r.result)
        /\ UNCHANGED <<now, notification_triggered, last_tick, last_timer_state>>
        /\ UNCHANGED <<ui_state, config, config_dirty, mutated, last_started, run_time, display_context, query>>

resume_timer ==
    LET r == resume(timer, now)
    IN  /\ timer' = r.timer
        /\ last_interaction' = IF r.result = "Ok" THEN now ELSE last_interaction
        /\ last_call' = Call("resume", None, r.result)
        /\ UNCHANGED <<now, notification_triggered, last_tick, last_timer_state>>
        /\ UNCHANGED <<ui_state, config, config_dirty, mutated, last_started, run_time, display_context, query>>

\* reset_timer that also ends a drag in progress
reset_timer_ends_drag ==
    /\ timer' = reset(timer)
    /\ notification_triggered' = FALSE
    /\ last_interaction' = now
    /\ last_call' = Call("reset", None, "Ok")
    /\ ui_state' = [ui_state EXCEPT !.is_dragging = FALSE, !.drag_offset = <<>>]
    /\ UNCHANGED <<now, last_tick, last_timer_state>>
    /\ UNCHANGED <<config, config_dirty, mutated, last_started, run_time, display_context, query>>

reset_timer ==
    /\ timer' = reset(timer)
    /\ notification_triggered' = FALSE
    /\ last_interaction' = now
    /\ last_call' = Call("reset", None, "Ok")
    /\ UNCHANGED <<now, last_tick, last_timer_state>>
    /\ UNCHANGED <<ui_state, config, config_dirty, mutated, last_started, run_time, display_context, query>>

tick_timer ==
    LET r == tick_timer_of(timer, notification_triggered, now)
    IN  /\ timer' = r.timer
        /\ notification_triggered' = r.notification_triggered
        /\ last_call' = Ticked("tick", r.result, FALSE)
        /\ UNCHANGED <<now, last_interaction, last_tick, last_timer_state>>
        /\ UNCHANGED <<ui_state, config, config_dirty, mutated, last_started, run_time, display_context, query>>

\* mark_interaction: the new value of ui_state.last_interaction
mark_interaction == now

set_window_visible(visible) ==
    /\ ui_state' = [ui_state EXCEPT !.is_visible = visible]
    /\ last_interaction' = IF visible THEN mark_interaction ELSE last_interaction
    /\ last_call' = Call("set_window_visible", IF visible THEN 1 ELSE 0, "Ok")
    /\ UNCHANGED <<now, timer, notification_triggered, last_tick, last_timer_state>>
    /\ UNCHANGED <<config, config_dirty, mutated, last_started, run_time, display_context, query>>

\* window_transparency that looks at the hover flag only
window_transparency_hover_only ==
    IF ui_state.is_hovered
    THEN config.display.hover_transparency
    ELSE config.display.transparency

window_transparency ==
    IF ui_state.is_hovered \/ ui_state.is_dragging
    THEN config.display.hover_transparency
    ELSE config.display.transparency

\* set_transparency that always writes the base transparency
set_transparency_always_base(alpha) ==
    IF f32_lt(alpha, 0) \/ f32_gt(alpha, 100)
    THEN /\ last_call' = Call("set_transparency", alpha, "Err")
         /\ UNCHANGED <<now, timer, notification_triggered, last_interaction, last_tick,
                        last_timer_state, ui_state, config, config_dirty, mutated, last_started, run_time, display_context, query>>
    ELSE /\ config' = [config EXCEPT !.display.transparency = alpha]
         /\ config_dirty' = TRUE
         /\ mutated' = (mutated \/ config' # config)
         /\ last_call' = Call("set_transparency", alpha, "Ok")
         /\ UNCHANGED <<now, timer, notification_triggered, last_interaction, last_tick,
                        last_timer_state, ui_state, last_started, run_time, display_context, query>>

set_transparency(alpha) ==
    IF f32_lt(alpha, 0) \/ f32_gt(alpha, 100)
    THEN /\ last_call' = Call("set_transparency", alpha, "Err")
         /\ UNCHANGED <<now, timer, notification_triggered, last_interaction, last_tick,
                        last_timer_state, ui_state, config, config_dirty, mutated, last_started, run_time, display_context, query>>
    ELSE /\ config' = IF ui_state.is_hovered
                      THEN [config EXCEPT !.display.hover_transparency = alpha]
                      ELSE [config EXCEPT !.display.transparency = alpha]
         /\ config_dirty' = TRUE
         /\ mutated' = (mutated \/ config' # config)
         /\ last_call' = Call("set_transparency", alpha, "Ok")
         /\ UNCHANGED <<now, timer, notification_triggered, last_interaction, last_tick,
                        last_timer_state, ui_state, last_started, run_time, display_context, query>>

\* handle_mouse_enter that flips the hover state on every call
handle_mouse_enter_toggles ==
    /\ ui_state' = [ui_state EXCEPT !.is_hovered = ~ui_state.is_hovered,
                                    !.controls_visible = ~ui_state.is_hovered]
    /\ last_interaction' = mark_interaction
    /\ last_call' = Call("handle_mouse_enter", None, "Ok")
    /\ UNCHANGED <<now, timer, notification_triggered, last_tick, last_timer_state>>
    /\ UNCHANGED <<config, config_dirty, mutated, last_started, run_time, display_context, query>>

handle_mouse_enter ==
    /\ IF ~ui_state.is_hovered
       THEN /\ ui_state' = [ui_state EXCEPT !.is_hovered = TRUE, !.controls_visible = TRUE]
            /\ last_interaction' = mark_interaction
       ELSE UNCHANGED <<ui_state, last_interaction>>
    /\ last_call' = Call("handle_mouse_enter", None, "Ok")
    /\ UNCHANGED <<now, timer, notification_triggered, last_tick, last_timer_state>>
    /\ UNCHANGED <<config, config_dirty, mutated, last_started, run_time, display_context, query>>

\* handle_mouse_leave that does not look at the drag flag
handle_mouse_leave_ignores_drag ==
    /\ IF ui_state.is_hovered
       THEN /\ ui_state' = [ui_state EXCEPT !.is_hovered = FALSE, !.controls_visible = FALSE]
            /\ last_interaction' = mark_interaction
       ELSE UNCHANGED <<ui_state, last_interaction>>
    /\ last_call' = Call("handle_mouse_leave", None, "Ok")
    /\ UNCHANGED <<now, timer, notification_triggered, last_tick, last_timer_state>>
    /\ UNCHANGED <<config, config_dirty, mutated, last_started, run_time, display_context, query>>

handle_mouse_leave ==
    /\ IF ui_state.is_hovered /\ ~ui_state.is_dragging
       THEN /\ ui_state' = [ui_state EXCEPT !.is_hovered = FALSE, !.controls_visible = FALSE]
            /\ last_interaction' = mark_interaction
       ELSE UNCHANGED <<ui_state, last_interaction>>
    /\ last_call' = Call("handle_mouse_leave", None, "Ok")
    /\ UNCHANGED <<now, timer, notification_triggered, last_tick, last_timer_state>>
    /\ UNCHANGED <<config, config_dirty, mutated, last_started, run_time, display_context, query>>

\* handle_drag_start that also shows the controls
handle_drag_start_shows_controls(x, y) ==
    LET current_pos == config.display.position
    IN  /\ ui_state' = [ui_state EXCEPT
                           !.is_dragging = TRUE,
                           !.controls_visible = TRUE,
                           !.drag_offset = Some(<<i32_as_f32(current_pos[1] - x),
                                                  i32_as_f32(current_pos[2] - y)>>)]
        /\ last_interaction' = mark_interaction
        /\ last_call' = Call("handle_drag_start", None, "Ok")
        /\ query' = Asked(<<x, y>>, <<>>)
        /\ UNCHANGED <<now, timer, notification_triggered, last_tick, last_timer_state>>
        /\ UNCHANGED <<config, config_dirty, mutated, last_started, run_time, display_context>>

handle_drag_start(x, y) ==
    LET current_pos == config.display.position
    IN  /\ ui_state' = [ui_state EXCEPT
                           !.is_dragging = TRUE,
                           !.drag_offset = Some(<<i32_as_f32(current_pos[1] - x),
                                                  i32_as_f32(current_pos[2] - y)>>)]
        /\ last_interaction' = mark_interaction
        /\ last_call' = Call("handle_drag_start", None, "Ok")
        /\ query' = Asked(<<x, y>>, <<>>)
        /\ UNCHANGED <<now, timer, notification_triggered, last_tick, last_timer_state>>
        /\ UNCHANGED <<config, config_dirty, mutated, last_started, run_time, display_context>>

\* position_set that never marks the configuration dirty
position_set_unmarked(x, y) ==
    /\ config' = [config EXCEPT !.display.position = <<x, y>>]
    /\ display_context' = update_current_monitor(display_context, x, y)
    /\ config_dirty' = config_dirty
    /\ mutated' = (mutated \/ config' # config)

\* What set_window_position does to the AppState.
position_set(x, y) ==
    /\ config' = [config EXCEPT !.display.position = <<x, y>>]
    /\ display_context' = update_current_monitor(display_context, x, y)
    /\ config_dirty' = IF config.behavior.remember_position THEN TRUE ELSE config_dirty
    /\ mutated' = (mutated \/ config' # config)

\* set_window_position that marks the configuration dirty in every case
set_window_position_always_dirty(x, y) ==
    /\ config' = [config EXCEPT !.display.position = <<x, y>>]
    /\ display_context' = update_current_monitor(display_context, x, y)
    /\ config_dirty' = TRUE
    /\ mutated' = (mutated \/ config' # config)
    /\ last_call' = Call("set_window_position", None, "Ok")
    /\ query' = Asked(<<x, y>>, <<>>)
    /\ UNCHANGED <<now, timer, notification_triggered, last_interaction, last_tick,
                   last_timer_state, ui_state, last_started, run_time>>

set_window_position(x, y) ==
    /\ position_set(x, y)
    /\ last_call' = Call("set_window_position", None, "Ok")
    /\ query' = Asked(<<x, y>>, <<>>)
    /\ UNCHANGED <<now, timer, notification_triggered, last_interaction, last_tick,
                   last_timer_state, ui_state, last_started, run_time>>

\* What drag_window_to does to the AppState.
dragged_to(x, y) ==
    LET constrained_pos == constrain_position(display_context, x, y, 200, 100)
    IN  position_set(constrained_pos[1], constrained_pos[2])

handle_drag_move(x, y) ==
    /\ IF ui_state.drag_offset # Nothing
       THEN LET offset_x == ui_state.drag_offset[1][1]
                offset_y == ui_state.drag_offset[1][2]
                new_x == x + f32_as_i32(offset_x, 1)
                new_y == y + f32_as_i32(offset_y, 1)
            IN  dragged_to(new_x, new_y)
       ELSE UNCHANGED <<config, display_context, config_dirty, mutated>>
    /\ last_call' = Call("handle_drag_move", None, "Ok")
    /\ query' = Asked(<<x, y>>, <<>>)
    /\ UNCHANGED <<now, timer, notification_triggered, last_interaction, last_tick,
                   last_timer_state, ui_state, last_started, run_time>>

handle_dpi_change(new_scale) ==
    /\ display_context' = [display_context EXCEPT !.dpi_scale = new_scale]
    /\ last_call' = Call("handle_dpi_change", new_scale, "Ok")
    /\ UNCHANGED <<now, timer, notification_triggered, last_interaction, last_tick,
                   last_timer_state, ui_state, config, config_dirty, mutated, last_started, run_time,
                   query>>

\* display_context.update_current_monitor(x, y)
current_monitor_updated(x, y) ==
    /\ display_context' = update_current_monitor(display_context, x, y)
    /\ last_call' = Call("update_current_monitor", None, "Ok")
    /\ query' = Asked(<<x, y>>, <<>>)
    /\ UNCHANGED <<now, timer, notification_triggered, last_interaction, last_tick,
                   last_timer_state, ui_state, config, config_dirty, mutated, last_started, run_time>>

\* display_context.constrain_position(x, y, window_width, window_height)
position_constrained(x, y, window_width, window_height) ==
    /\ last_call' = Call("constrain_position", None, "Ok")
    /\ query' = Asked(<<x, y, window_width, window_height>>,
                      constrain_position(display_context, x, y, window_width, window_height))
    /\ UNCHANGED <<now, timer, notification_triggered, last_interaction, last_tick,
                   last_timer_state, ui_state, config, config_dirty, mutated, last_started, run_time,
                   display_context>>

\* display_context.logical_to_physical(x, y)
converted_to_physical(x, y) ==
    /\ last_call' = Call("logical_to_physical", None, "Ok")
    /\ query' = Asked(<<x, y>>, logical_to_physical(display_context, x, y))
    /\ UNCHANGED <<now, timer, notification_triggered, last_interaction, last_tick,
                   last_timer_state, ui_state, config, config_dirty, mutated, last_started, run_time,
                   display_context>>

\* display_context.physical_to_logical(x, y)
converted_to_logical(x, y) ==
    /\ last_call' = Call("physical_to_logical", None, "Ok")
    /\ query' = Asked(<<x, y>>, physical_to_logical(display_context, x, y))
    /\ UNCHANGED <<now, timer, notification_triggered, last_interaction, last_tick,
                   last_timer_state, ui_state, config, config_dirty, mutated, last_started, run_time,
                   display_context>>

\* display_context.add_monitor(monitor)
add_monitor(monitor) ==
    /\ display_context' = [display_context EXCEPT !.monitors = Append(@, monitor)]
    /\ last_call' = Call("add_monitor", None, "Ok")
    /\ UNCHANGED <<now, timer, notification_triggered, last_interaction, last_tick,
                   last_timer_state, ui_state, config, config_dirty, mutated, last_started, run_time,
                   query>>

\* handle_drag_end that also ends the hover
handle_drag_end_clears_hover ==
    /\ ui_state' = [ui_state EXCEPT !.is_dragging = FALSE, !.drag_offset = <<>>,
                                    !.is_hovered = FALSE, !.controls_visible = FALSE]
    /\ last_interaction' = mark_interaction
    /\ last_call' = Call("handle_drag_end", None, "Ok")
    /\ UNCHANGED <<now, timer, notification_triggered, last_tick, last_timer_state>>
    /\ UNCHANGED <<config, config_dirty, mutated, last_started, run_time, display_context, query>>

handle_drag_end ==
    /\ ui_state' = [ui_state EXCEPT !.is_dragging = FALSE, !.drag_offset = Nothing]
    /\ last_interaction' = mark_interaction
    /\ last_call' = Call("handle_drag_end", None, "Ok")
    /\ UNCHANGED <<now, timer, notification_triggered, last_tick, last_timer_state>>
    /\ UNCHANGED <<config, config_dirty, mutated, last_started, run_time, display_context, query>>

\* A call of handle_hotkey with the key combination it was given.
Pressed(keys) == [Call("handle_hotkey", None, "Ok") EXCEPT !.keys = keys]

\* the match of handle_hotkey with the start_stop arm ahead of toggle_visibility
hotkey_slot_start_stop_first(hotkeys, keys) ==
    IF Some(keys) = hotkeys.start_stop THEN "start_stop"
    ELSE IF Some(keys) = hotkeys.toggle_visibility THEN "toggle_visibility"
    ELSE IF Some(keys) = hotkeys.reset THEN "reset"
    ELSE "unknown"

\* The arm of handle_hotkey's match that keys selects.
hotkey_slot(hotkeys, keys) ==
    IF Some(keys) = hotkeys.toggle_visibility THEN "toggle_visibility"
    ELSE IF Some(keys) = hotkeys.start_stop THEN "start_stop"
    ELSE IF Some(keys) = hotkeys.reset THEN "reset"
    ELSE "unknown"

handle_hotkey(keys) ==
    LET slot == hotkey_slot(config.hotkeys, keys)
        idle == timer.state.kind \in {"Stopped", "Finished"}
        duration == IF timer.original_duration = 0
                    THEN DefaultHotkeyDuration
                    ELSE timer.original_duration
        r == IF idle THEN start(timer, duration, now)
             ELSE IF timer.state.kind = "Running" THEN pause(timer, now)
             ELSE resume(timer, now)
    IN  /\ last_call' = Pressed(keys)
        /\ CASE slot = "toggle_visibility" ->
                   \* set_window_visible(!is_window_visible())
                   /\ ui_state' = [ui_state EXCEPT !.is_visible = ~ui_state.is_visible]
                   /\ last_interaction' = IF ~ui_state.is_visible
                                          THEN mark_interaction
                                          ELSE last_interaction
                   /\ UNCHANGED <<timer, notification_triggered, last_started, run_time, display_context, query>>
             [] slot = "start_stop" ->
                   \* start_timer, pause_timer or resume_timer
                   /\ timer' = r.timer
                   /\ last_interaction' = IF r.result = "Ok" THEN now ELSE last_interaction
                   /\ last_started' = IF idle /\ r.result = "Ok"
                                      THEN duration
                                      ELSE last_started
                   /\ run_time' = IF idle /\ r.result = "Ok" THEN 0 ELSE run_time
                   /\ UNCHANGED <<ui_state, notification_triggered, display_context, query>>
             [] slot = "reset" ->
                   \* reset_timer
                   /\ timer' = reset(timer)
                   /\ notification_triggered' = FALSE
                   /\ last_interaction' = now
                   /\ UNCHANGED <<ui_state, last_started, run_time, display_context, query>>
             [] OTHER ->
                   UNCHANGED <<timer, notification_triggered, last_interaction, ui_state,
                               last_started, run_time, display_context, query>>
        /\ UNCHANGED <<now, last_tick, last_timer_state, config, config_dirty, mutated>>

\* are_controls_visible that does not look at the configuration
are_controls_visible_hover_only == ui_state.controls_visible

are_controls_visible == ui_state.controls_visible /\ config.display.show_controls

\* get_visible_controls that offers pause for a paused countdown too
get_visible_controls_pause_when_paused ==
    IF ~are_controls_visible THEN <<>>
    ELSE IF timer.state.kind \in {"Stopped", "Finished"} THEN <<"start", "reset">>
    ELSE IF timer.state.kind = "Running" THEN <<"pause", "reset">>
    ELSE <<"pause", "resume", "reset">>

get_visible_controls ==
    IF ~are_controls_visible THEN <<>>
    ELSE IF timer.state.kind \in {"Stopped", "Finished"} THEN <<"start", "reset">>
    ELSE IF timer.state.kind = "Running" THEN <<"pause", "reset">>
    ELSE <<"resume", "reset">>

\* A call of apply_configuration with the configuration it was given.
Applied(c) == [Call("apply_configuration", None, "Ok") EXCEPT !.config = Some(c)]

\* apply_configuration that turns down a configuration whose hover transparency
\* is below its base transparency
apply_configuration_validates(c) ==
    /\ config' = IF c.display.hover_transparency < c.display.transparency THEN config ELSE c
    /\ config_dirty' = TRUE
    /\ mutated' = (mutated \/ config' # config)
    /\ last_call' = Applied(c)
    /\ UNCHANGED <<now, timer, notification_triggered, last_interaction, last_tick,
                   last_timer_state, ui_state, last_started, run_time, display_context, query>>

apply_configuration(c) ==
    /\ config' = c
    /\ config_dirty' = TRUE
    /\ mutated' = (mutated \/ config' # config)
    /\ last_call' = Applied(c)
    /\ UNCHANGED <<now, timer, notification_triggered, last_interaction, last_tick,
                   last_timer_state, ui_state, last_started, run_time, display_context, query>>

save_configuration ==
    /\ config_dirty' = FALSE
    /\ mutated' = FALSE
    /\ last_call' = Call("save_configuration", None, "Ok")
    /\ UNCHANGED <<now, timer, notification_triggered, last_interaction, last_tick,
                   last_timer_state, ui_state, config, last_started, run_time, display_context, query>>

(* ------------------------------- TimerApp ------------------------------ *)

\* The tick section of TimerApp::update: one frame of the host loop.
update ==
    IF now - last_tick >= TickInterval
    THEN LET r == tick_timer_of(timer, notification_triggered, now)
             played == /\ r.result
                       /\ r.timer.state.kind = "Finished"
                       /\ last_timer_state # "Finished"
         IN  /\ timer' = r.timer
             /\ notification_triggered' = r.notification_triggered
             /\ last_timer_state' = IF r.result THEN r.timer.state.kind ELSE last_timer_state
             /\ last_tick' = now
             /\ last_call' = Ticked("update", r.result, played)
             /\ UNCHANGED <<now, last_interaction>>
             /\ UNCHANGED <<ui_state, config, config_dirty, mutated, last_started, run_time, display_context, query>>
    ELSE /\ last_call' = Ticked("update", FALSE, FALSE)
         /\ UNCHANGED <<now, timer, notification_triggered, last_interaction,
                        last_tick, last_timer_state>>
         /\ UNCHANGED <<ui_state, config, config_dirty, mutated, last_started, run_time, display_context, query>>

(* -------------------------------- clock -------------------------------- *)

Advance ==
    /\ \E t \in Instants : t > now /\ now' = t
    /\ UNCHANGED <<timer, notification_triggered, last_interaction, last_tick,
                   last_timer_state, last_call>>
    /\ run_time' = IF timer.state.kind = "Running" THEN run_time + (now' - now) ELSE run_time
    /\ UNCHANGED <<ui_state, config, config_dirty, mutated, last_started, display_context, query>>

(* ---------------------------- specification ---------------------------- *)

Init ==
    /\ now = 0
    /\ timer = Timer_new
    /\ notification_triggered = FALSE
    /\ last_interaction = None
    /\ last_tick = 0
    /\ last_timer_state = "Stopped"
    /\ last_call = Call("new", None, "Ok")
    /\ ui_state = UiState_new
    /\ config = Configuration_default
    /\ config_dirty = FALSE
    /\ last_started = None
    /\ run_time = 0
    /\ display_context = DisplayContext_new
    /\ query = Asked(<<>>, <<>>)
    /\ mutated = FALSE

Next ==
    \/ \E duration \in Durations : start_timer(duration)
    \/ pause_timer
    \/ resume_timer
    \/ reset_timer
    \/ tick_timer
    \/ update
    \/ Advance

Spec == Init /\ [][Next]_vars

\* The host loop keeps running frames and the clock keeps moving.
LiveSpec == Spec /\ WF_vars(update) /\ WF_vars(Advance)

(* ------------------- specification: hover, drag, display --------------- *)

\* The alpha values offered to set_transparency: both edges of [0, 1], the
\* nearest values outside, and NaN.
Alphas == {-1, 0, 100, 101, NaN}

\* The pointer position offered to handle_drag_start.
Pointers == {<<110, 95>>}

\* The configurations offered to apply_configuration: the default, and its
\* variants without controls and with the two transparencies exchanged.
DisplayConfigurations ==
    {[Configuration_default EXCEPT !.display.show_controls = show,
                                   !.display.transparency = pair[1],
                                   !.display.hover_transparency = pair[2]] :
         show \in BOOLEAN, pair \in {<<30, 80>>, <<80, 30>>}}

UiNext ==
    \/ handle_mouse_enter
    \/ handle_mouse_leave
    \/ \E p \in Pointers : handle_drag_start(p[1], p[2])
    \/ handle_drag_end
    \/ \E alpha \in Alphas : set_transparency(alpha)
    \/ \E visible \in BOOLEAN : set_window_visible(visible)
    \/ \E c \in DisplayConfigurations : apply_configuration(c)
    \/ save_configuration
    \/ start_timer(TickInterval)
    \/ pause_timer
    \/ resume_timer
    \/ reset_timer
    \/ tick_timer
    \/ (Advance /\ now' <= MaxUiClock)

UiSpec == Init /\ [][UiNext]_vars

(* ------------------------ specification: controls --------------------- *)

\* The timer operations next to the handlers and the setting that show and
\* hide the controls.
ControlsNext ==
    \/ handle_mouse_enter
    \/ handle_mouse_leave
    \/ \E show \in BOOLEAN :
           apply_configuration([Configuration_default EXCEPT !.display.show_controls = show])
    \/ \E duration \in Durations : start_timer(duration)
    \/ pause_timer
    \/ resume_timer
    \/ reset_timer
    \/ tick_timer
    \/ (Advance /\ now' <= MaxUiClock)

ControlsSpec == Init /\ [][ControlsNext]_vars

(* ---------------------- specification: transparency ------------------- *)

\* The default configuration driven by set_transparency and the hover and
\* drag handlers alone.
TransparencyNext ==
    \/ handle_mouse_enter
    \/ handle_mouse_leave
    \/ \E p \in Pointers : handle_drag_start(p[1], p[2])
    \/ handle_drag_end
    \/ \E alpha \in Alphas \cup {50, 90} : set_transparency(alpha)

TransparencySpec == Init /\ [][TransparencyNext]_vars

(* ----------------------- specification: validation -------------------- *)

\* The paths a sound file may be configured at.
SoundFiles == {"alarm.wav"}

\* The transparencies offered in configurations: the bounds of [0, 1], values
\* inside, values outside on both sides, and NaN.
Transparencies == {-50, 0, 30, 80, 100, 150, NaN}

\* Configurations that differ from the default in one part other than the
\* transparencies: a position off the accepted range, malformed hotkey
\* strings, an unset hotkey, and a sound file.
Variants ==
    {Configuration_default}
    \cup {[Configuration_default EXCEPT !.display.position = position] :
              position \in {<<-5001, 0>>, <<0, 10001>>}}
    \cup {[Configuration_default EXCEPT !.hotkeys.start_stop = keys] :
              keys \in {Nothing, Some(""), Some("Ctrl++S"), Some("+S"), Some("Ctrl+")}}
    \cup {[Configuration_default EXCEPT !.notifications.sound_file = file] :
              file \in {Some(""), Some("alarm.wav")}}

ValidationConfigurations ==
    Variants
    \cup {[Configuration_default EXCEPT !.display.transparency = transparency,
                                        !.display.hover_transparency = hover_transparency] :
              transparency \in Transparencies,
              hover_transparency \in Transparencies}

\* Configuration::validate called on the configuration the state holds, with
\* the files in existing present.
configuration_validated(existing) ==
    /\ last_call' = Call("validate", None, "Ok")
    /\ query' = Asked(<<existing>>, validate(config, existing))
    /\ UNCHANGED <<now, timer, notification_triggered, last_interaction, last_tick,
                   last_timer_state, ui_state, config, config_dirty, mutated, last_started, run_time,
                   display_context>>

ValidationNext ==
    \/ \E c \in ValidationConfigurations : apply_configuration(c)
    \/ \E alpha \in Alphas : set_transparency(alpha)
    \/ handle_mouse_enter
    \/ handle_mouse_leave
    \/ \E existing \in SUBSET SoundFiles : configuration_validated(existing)

ValidationSpec == Init /\ [][ValidationNext]_vars

(* ------------------------ specification: hotkeys ----------------------- *)

\* The strings offered to handle_hotkey: the three defaults and one that
\* differs from a default in case only.
Keys == {"Ctrl+Alt+T", "Ctrl+Alt+S", "Ctrl+Alt+R", "ctrl+alt+s"}

\* The configurations offered to apply_configuration: slots unset, and slots
\* that hold the same string as start_stop.
HotkeyConfigurations ==
    {[Configuration_default EXCEPT !.hotkeys = [toggle_visibility |-> a,
                                                start_stop |-> b,
                                                reset |-> c]] :
         a \in {Nothing, Some("Ctrl+Alt+T"), Some("Ctrl+Alt+S")},
         b \in {Nothing, Some("Ctrl+Alt+S")},
         c \in {Some("Ctrl+Alt+R"), Some("Ctrl+Alt+S")}}

HotkeyNext ==
    \/ \E keys \in Keys : handle_hotkey(keys)
    \/ \E c \in HotkeyConfigurations : apply_configuration(c)
    \/ \E duration \in 1 .. MaxShort : start_timer(duration)
    \/ reset_timer
    \/ tick_timer
    \/ (Advance /\ now' <= MaxSkew)

HotkeySpec == Init /\ [][HotkeyNext]_vars

(* ----------------- specification: position, configuration ------------- *)

\* The monitors offered to add_monitor: a primary one at the origin, one at
\* 150 % that overlaps its right edge, and one at 125 % below it that is
\* smaller than the 200 x 100 window.
Monitors ==
    {MonitorInfo_new(<<0, 0, 400, 300>>, 4, TRUE),
     MonitorInfo_new(<<300, 0, 400, 300>>, 6, FALSE),
     MonitorInfo_new(<<0, 300, 150, 80>>, 5, FALSE)}

\* The positions offered to set_window_position: on both of the overlapping
\* monitors, on the second only, on the small one, and on none.
Points == {<<350, 50>>, <<500, 100>>, <<50, 320>>, <<-20, 400>>}

\* The configurations offered to apply_configuration: the default, and the
\* default with remember_position off.
PositionConfigurations ==
    {[Configuration_default EXCEPT !.behavior.remember_position = remember] :
         remember \in BOOLEAN}

PositionNext ==
    \/ \E monitor \in Monitors :
           Len(display_context.monitors) < MaxMonitors /\ add_monitor(monitor)
    \/ \E point \in Points : set_window_position(point[1], point[2])
    \/ \E c \in PositionConfigurations : apply_configuration(c)
    \/ save_configuration
    \/ \E alpha \in {0, 101} : set_transparency(alpha)

PositionSpec == Init /\ [][PositionNext]_vars

(* --------------------------- specification: drag ----------------------- *)

\* The pointer positions offered to handle_drag_start: one next to the window
\* corner, and one so far to the left that the offset is no f32.
DragPointers == {<<110, 95>>, <<-16777317, 95>>}

\* The pointer positions offered to handle_drag_move: a small move, and one
\* beyond every monitor.
DragMoves == {<<120, 105>>, <<900, 900>>}

DragNext ==
    \/ \E monitor \in Monitors :
           Len(display_context.monitors) < MaxMonitors /\ add_monitor(monitor)
    \/ \E pointer \in DragPointers :
           /\ config.display.position[1] <= MaxReach
           /\ config.display.position[2] <= MaxReach
           /\ handle_drag_start(pointer[1], pointer[2])
    \/ \E pointer \in DragMoves : handle_drag_move(pointer[1], pointer[2])
    \/ handle_drag_end

DragSpec == Init /\ [][DragNext]_vars

(* ----------------------- specification: DisplayContext ----------------- *)

\* The points offered to update_current_monitor and constrain_position: on
\* both overlapping monitors, on the first one's right edge, on the small
\* monitor, and far beyond every monitor on either side.
DisplayPoints ==
    {<<350, 50>>, <<400, 50>>, <<50, 320>>, <<-50000, -50000>>, <<50000, 50000>>}

\* The window sizes offered to constrain_position: below the minimum of 50,
\* the widget's 200 x 100, and higher than every monitor.
WindowSizes == {<<30, 30>>, <<200, 100>>, <<200, 400>>}

\* The DPI scales offered to handle_dpi_change: 25 %, 100 % and 150 %.
Scales == {1, 4, 6}

\* The coordinates offered to the conversions: small ones of either sign, and
\* the first integer that is no f32.
Coordinates == {-3, 3, 2^24 + 1}

DisplayNext ==
    \/ \E monitor \in Monitors :
           Len(display_context.monitors) < MaxMonitors /\ add_monitor(monitor)
    \/ \E point \in DisplayPoints : current_monitor_updated(point[1], point[2])
    \/ \E new_scale \in Scales : handle_dpi_change(new_scale)
    \/ \E point \in DisplayPoints \cup
                      (IF last_call.op = "constrain_position" THEN {query.value} ELSE {}),
          size \in WindowSizes :
           position_constrained(point[1], point[2], size[1], size[2])
    \/ \E x \in Coordinates, y \in Coordinates : converted_to_physical(x, y)
    \/ \E point \in (Coordinates \X Coordinates) \cup
                      (IF last_call.op = "logical_to_physical" THEN {query.value} ELSE {}) :
           converted_to_logical(point[1], point[2])

DisplaySpec == Init /\ [][DisplayNext]_vars

TypeOK ==
    /\ now \in Instants
    /\ timer.state.kind \in {"Stopped", "Running", "Paused", "Finished"}
    /\ notification_triggered \in BOOLEAN
    /\ last_tick \in Instants

(* ------------------------------ properties ----------------------------- *)

\* The step is a call of operation op (Advance is the only step that moves the clock).
Called(op) == now' = now /\ last_call'.op = op

ValidDuration(d) == 0 < d /\ d <= MaxDuration

\* C1: for every duration d with 0 < d <= 24h, start(d) called while the timer
\* is Stopped or Finished succeeds and leaves the timer Running with
\* remaining_duration = d, original_duration = d and completion_time cleared,
\* so that remaining_time() read at the same instant equals d.
C1_StartFromIdle ==
    [][(/\ Called("start")
        /\ timer.state.kind \in {"Stopped", "Finished"}
        /\ ValidDuration(last_call'.arg))
       => (/\ last_call'.result = "Ok"
           /\ timer'.state = Running(now, last_call'.arg)
           /\ timer'.original_duration = last_call'.arg
           /\ timer'.completion_time = None
           /\ remaining_time(timer', now') = last_call'.arg)]_vars

\* A start of the longest legal duration has just succeeded on a timer that
\* had finished an earlier countdown.
C1_Witness ==
    /\ last_call.op = "start"
    /\ last_call.arg = MaxDuration
    /\ last_call.result = "Ok"
    /\ timer.state = Running(now, MaxDuration)
    /\ remaining_time(timer, now) = MaxDuration
    /\ notification_triggered

\* C2 as stated: start called while the timer is Running or Paused always fails
\* with InvalidState, for every duration argument, and leaves the timer unchanged.
C2_Original ==
    [][(Called("start") /\ timer.state.kind \in {"Running", "Paused"})
       => (last_call'.result = "InvalidState" /\ timer' = timer)]_vars

\* C2 amended: start called while the timer is Running or Paused always fails
\* and leaves the timer unchanged; the error is InvalidState for every duration
\* d with 0 < d <= 24h, and InvalidDuration for d = 0 and d > 24h.
C2_StartWhileActive ==
    [][(Called("start") /\ timer.state.kind \in {"Running", "Paused"})
       => (/\ timer' = timer
           /\ last_call'.result =
                  IF ValidDuration(last_call'.arg) THEN "InvalidState" ELSE "InvalidDuration")]_vars

\* A start with a legal duration has just been refused on a Paused timer.
C2_Witness ==
    /\ last_call.op = "start"
    /\ ValidDuration(last_call.arg)
    /\ last_call.result = "InvalidState"
    /\ timer.state.kind = "Paused"

\* C3: start(d) with d = 0 or d > 24h fails with InvalidDuration in every
\* reachable timer state and leaves the timer unchanged.
C3_InvalidDuration ==
    [][(Called("start") /\ ~ValidDuration(last_call'.arg))
       => (last_call'.result = "InvalidDuration" /\ timer' = timer)]_vars

\* A start of more than 24h has just been refused on a Running timer.
C3_Witness ==
    /\ last_call.op = "start"
    /\ last_call.arg = MaxDuration + 1
    /\ last_call.result = "InvalidDuration"
    /\ timer.state.kind = "Running"

\* C4: pause succeeds exactly when the timer is Running and resume exactly when
\* it is Paused; in every other state each fails with InvalidState and the
\* timer, and the rest of the AppState with last_interaction, are unchanged.
C4_PauseResumeGuards ==
    [][/\ Called("pause") =>
            /\ (last_call'.result = "Ok") <=> (timer.state.kind = "Running")
            /\ timer.state.kind = "Running" => timer'.state.kind = "Paused"
            /\ timer.state.kind # "Running" =>
                   (last_call'.result = "InvalidState" /\ app_state' = app_state)
       /\ Called("resume") =>
            /\ (last_call'.result = "Ok") <=> (timer.state.kind = "Paused")
            /\ timer.state.kind = "Paused" => timer'.state.kind = "Running"
            /\ timer.state.kind # "Paused" =>
                   (last_call'.result = "InvalidState" /\ app_state' = app_state)]_vars

\* A pause has just been refused on a Finished timer, some time after the
\* last interaction.
C4_Witness ==
    /\ last_call.op = "pause"
    /\ last_call.result = "InvalidState"
    /\ timer.state.kind = "Finished"
    /\ last_interaction # None
    /\ last_interaction < now

\* C5: reset never fails and, from every reachable timer state, leaves the
\* timer Stopped with remaining_time() = none, original_duration = 0 and
\* completion_time cleared.
C5_Reset ==
    [][Called("reset")
       => (/\ last_call'.result = "Ok"
           /\ timer'.state = Stopped
           /\ remaining_time(timer', now') = None
           /\ timer'.original_duration = 0
           /\ timer'.completion_time = None)]_vars

\* A reset has just run on a timer whose countdown the host loop saw finish.
C5_Witness ==
    /\ last_call.op = "reset"
    /\ timer.state = Stopped
    /\ last_timer_state = "Finished"
    /\ last_interaction = now
    /\ now > 0

\* The timer is Running and its live remaining time, read now, is zero.
Expired == timer.state.kind = "Running" /\ remaining_time(timer, now) = 0

\* C6: for a Running timer whose live remaining time has reached zero, the next
\* tick() moves it to Finished, records completion_time and returns true; every
\* later tick() with no start in between returns false and leaves the timer
\* Finished, so each countdown reports completion exactly once.
C6_TickFinishesOnce ==
    [][Called("tick")
       => /\ Expired => (/\ last_call'.state_changed
                         /\ timer'.state = Finished
                         /\ timer'.completion_time = now
                         /\ timer'.original_duration = timer.original_duration)
          /\ timer.state.kind = "Finished" => (~last_call'.state_changed /\ timer' = timer)]_vars

\* A tick has just returned false on a timer that finished at an earlier instant.
C6_Witness ==
    /\ last_call.op = "tick"
    /\ ~last_call.state_changed
    /\ timer.state = Finished
    /\ timer.completion_time # None
    /\ timer.completion_time < now
    /\ notification_triggered

\* C7 as stated: a pause issued at any point while the timer is still Running
\* leaves it Paused with 0 < remaining_time() <= d, d being the started duration.
C7_Original ==
    [][(Called("pause") /\ timer.state.kind = "Running")
       => (/\ timer'.state.kind = "Paused"
           /\ 0 < remaining_time(timer', now')
           /\ remaining_time(timer', now') <= timer.original_duration)]_vars

\* C7 amended: a pause issued while the timer is still Running leaves it Paused
\* with 0 <= remaining_time() <= d, the value being the live remaining time at
\* the pause: above zero exactly when the pause comes before the elapsed
\* running time reaches the stored duration.  resume() then restarts the
\* countdown from that paused value, not from d.
C7_PauseResumeRemaining ==
    [][/\ (Called("pause") /\ timer.state.kind = "Running")
           => (/\ timer'.state.kind = "Paused"
               /\ remaining_time(timer', now') = remaining_time(timer, now)
               /\ 0 <= remaining_time(timer', now')
               /\ remaining_time(timer', now') <= timer.original_duration
               /\ (0 < remaining_time(timer', now')) <=> ~Expired
               /\ timer'.original_duration = timer.original_duration)
       /\ (Called("resume") /\ timer.state.kind = "Paused")
           => (/\ timer'.state = Running(now, timer.state.remaining_duration)
               /\ remaining_time(timer', now') = remaining_time(timer, now)
               /\ timer'.original_duration = timer.original_duration)]_vars

\* A timer paused part-way has been resumed and has since counted down from
\* the paused value, which was below the started duration.
C7_Witness ==
    /\ last_call.op = "resume"
    /\ last_call.result = "Ok"
    /\ timer.state.kind = "Running"
    /\ 0 < timer.state.remaining_duration
    /\ timer.state.remaining_duration < timer.original_duration
    /\ now > timer.state.started_at
    /\ 0 < remaining_time(timer, now)
    /\ remaining_time(timer, now) < timer.state.remaining_duration

\* C8: while the timer stays Running with no pause, start or reset in between,
\* remaining_time() sampled later is less than or equal to the value sampled
\* earlier, and is never negative.
C8_RemainingMonotone ==
    [][(timer.state.kind = "Running" /\ timer'.state = timer.state)
       => (/\ remaining_time(timer', now') <= remaining_time(timer, now)
           /\ 0 <= remaining_time(timer', now'))]_vars

\* A Running timer has been overrun: the clock is past its deadline and the
\* reading is zero, below the stored duration.
C8_Witness ==
    /\ timer.state.kind = "Running"
    /\ now > timer.state.started_at + timer.state.remaining_duration
    /\ remaining_time(timer, now) = 0
    /\ timer.state.remaining_duration > 0

\* The countdown in progress ends before the last instant the clock visits.
DueInTime ==
    /\ timer.state.kind = "Running"
    /\ timer.state.started_at + timer.state.remaining_duration < LastInstant

\* C9: completion does not depend on tick regularity.  A tick, direct or from a
\* frame of the host loop, that happens at or after the moment the elapsed time
\* reaches the stored duration moves a Running timer to Finished, however late
\* it is; and if time advances and the host loop keeps ticking, every Running
\* timer that is not paused or reset eventually becomes Finished.
C9_TickIrregular ==
    /\ [][(/\ \/ Called("tick")
              \/ (Called("update") /\ now - last_tick >= TickInterval)
           /\ timer.state.kind = "Running"
           /\ now - timer.state.started_at >= timer.state.remaining_duration)
          => (timer'.state = Finished /\ last_call'.state_changed)]_vars
    /\ (DueInTime ~> timer.state.kind # "Running")

\* A frame of the host loop has finished a short countdown a day late.
C9_Witness ==
    /\ last_call.op = "update"
    /\ last_call.state_changed
    /\ timer.state = Finished
    /\ timer.original_duration <= MaxShort
    /\ timer.completion_time >= MaxDuration
    /\ last_interaction # None
    /\ last_interaction + timer.original_duration < timer.completion_time

\* C10: tick() is a no-op returning false when the timer is Stopped, Paused or
\* Finished, and when it is Running with live remaining time above zero: state,
\* original_duration and completion_time are unchanged.
C10_TickNoOp ==
    [][(Called("tick") /\ ~Expired)
       => (~last_call'.state_changed /\ timer' = timer
           /\ notification_triggered' = notification_triggered)]_vars

\* A tick has just returned false on a timer that has been Paused for longer
\* than its whole duration.
C10_Witness ==
    /\ last_call.op = "tick"
    /\ ~last_call.state_changed
    /\ timer.state.kind = "Paused"
    /\ last_interaction # None
    /\ now - last_interaction > timer.original_duration

\* C11: remaining_time() returns max(remaining_duration - elapsed since
\* started_at, 0) when Running, the stored remaining_duration when Paused and
\* none when Stopped or Finished; is_finished() is true exactly when the state
\* is Finished.
C11_RemainingTimeByState ==
    /\ timer.state.kind = "Running" =>
           LET left == timer.state.remaining_duration - (now - timer.state.started_at)
           IN  remaining_time(timer, now) = IF left > 0 THEN left ELSE 0
    /\ timer.state.kind = "Paused" =>
           remaining_time(timer, now) = timer.state.remaining_duration
    /\ timer.state.kind \in {"Stopped", "Finished"} => remaining_time(timer, now) = None
    /\ is_finished(timer) <=> timer.state.kind = "Finished"

\* A Paused timer holds a remaining time below its started duration while the
\* clock has moved on since the pause.
C11_Witness ==
    /\ timer.state.kind = "Paused"
    /\ remaining_time(timer, now) = timer.state.remaining_duration
    /\ 0 < timer.state.remaining_duration
    /\ timer.state.remaining_duration < timer.original_duration
    /\ last_interaction # None
    /\ last_interaction < now
    /\ ~is_finished(timer)

\* The step ran AppState::tick_timer: a direct call, or a frame of the host
\* loop that was due to tick.
TickedNow ==
    \/ Called("tick")
    \/ (Called("update") /\ now - last_tick >= TickInterval)

\* C12: tick_timer() returns true exactly when the timer changed state in that
\* call (Running to Finished) and then sets notification_triggered; when it
\* returns false the timer and notification_triggered are unchanged.
C12_TickTimerNotifies ==
    [][TickedNow
       => /\ last_call'.state_changed <=> (timer'.state # timer.state)
          /\ last_call'.state_changed =>
                 (/\ timer.state.kind = "Running"
                  /\ timer'.state = Finished
                  /\ notification_triggered')
          /\ ~last_call'.state_changed =>
                 (/\ timer' = timer
                  /\ notification_triggered' = notification_triggered)]_vars

\* A tick has just finished a second countdown, after a reset had cleared the
\* flag raised by the first.
C12_Witness ==
    /\ last_call.op = "tick"
    /\ last_call.state_changed
    /\ timer.state = Finished
    /\ notification_triggered
    /\ last_interaction # None
    /\ last_interaction > 0
    /\ timer.completion_time > last_interaction

\* C13: reset_timer(), from every reachable state, leaves the timer Stopped,
\* sets notification_triggered to false and stamps last_interaction; it changes
\* nothing else (configuration, config_dirty, hover/drag/visibility flags).
C13_ResetTimerFrame ==
    [][Called("reset")
       => (/\ timer'.state = Stopped
           /\ notification_triggered' = FALSE
           /\ last_interaction' = now
           /\ UNCHANGED <<ui_state, config, config_dirty>>)]_vars

\* A reset has just run on a hidden, hovered widget in the middle of a drag,
\* with an unsaved configuration that is not the default.
C13_Witness ==
    /\ last_call.op = "reset"
    /\ timer.state = Stopped
    /\ last_interaction = now
    /\ now > 0
    /\ ui_state.is_hovered
    /\ ui_state.is_dragging
    /\ ~ui_state.is_visible
    /\ config_dirty
    /\ config # Configuration_default

\* C16: while is_dragging is true, handle_mouse_leave changes nothing:
\* is_hovered and controls_visible keep their values and window_transparency()
\* keeps returning hover_transparency; when not dragging and hovered, it clears
\* both is_hovered and controls_visible.
C16_MouseLeaveDuringDrag ==
    [][Called("handle_mouse_leave")
       => /\ ui_state.is_dragging =>
                 (/\ app_state' = app_state
                  /\ window_transparency' = config.display.hover_transparency)
          /\ (~ui_state.is_dragging /\ ui_state.is_hovered) =>
                 (/\ ~ui_state'.is_hovered
                  /\ ~ui_state'.controls_visible
                  /\ window_transparency' = config.display.transparency)]_vars

\* The pointer has just left a hovered widget that is being dragged: hover and
\* controls are still on and the interaction stamp is older than the call.
C16_Witness ==
    /\ last_call.op = "handle_mouse_leave"
    /\ ui_state.is_dragging
    /\ ui_state.is_hovered
    /\ ui_state.controls_visible
    /\ window_transparency = config.display.hover_transparency
    /\ config.display.hover_transparency # config.display.transparency
    /\ last_interaction < now

\* C17: handle_drag_end sets is_dragging to false and clears drag_offset, and
\* leaves is_hovered, controls_visible and the window position unchanged; a
\* widget that was hovered before the drag ended keeps returning
\* hover_transparency, and only handle_mouse_leave ends the hover.
C17_DragEndKeepsHover ==
    [][/\ Called("handle_drag_end")
           => (/\ ~ui_state'.is_dragging
               /\ ui_state'.drag_offset = Nothing
               /\ ui_state'.is_hovered = ui_state.is_hovered
               /\ ui_state'.controls_visible = ui_state.controls_visible
               /\ config'.display.position = config.display.position
               /\ ui_state.is_hovered =>
                      window_transparency' = config.display.hover_transparency)
       /\ (ui_state.is_hovered /\ ~ui_state'.is_hovered)
           => Called("handle_mouse_leave")]_vars

\* A drag that started away from the window corner has just ended on a hovered
\* widget, which still shows the hover transparency.
C17_Witness ==
    /\ last_call.op = "handle_drag_end"
    /\ ~ui_state.is_dragging
    /\ ui_state.drag_offset = Nothing
    /\ ui_state.is_hovered
    /\ ui_state.controls_visible
    /\ window_transparency = config.display.hover_transparency
    /\ config.display.hover_transparency # config.display.transparency

\* What a caller sees of the hover state.
HoverView ==
    <<ui_state.is_hovered, ui_state.controls_visible, window_transparency,
      get_visible_controls>>

\* C18: handle_mouse_enter is idempotent: a second call in a row leaves
\* is_hovered, controls_visible, window_transparency() and the visible controls
\* as the first call left them; so is handle_mouse_leave whenever the widget is
\* not being dragged.
C18_HoverIdempotent ==
    [][/\ (last_call.op = "handle_mouse_enter" /\ Called("handle_mouse_enter"))
           => HoverView' = HoverView
       /\ (/\ last_call.op = "handle_mouse_leave"
           /\ ~ui_state.is_dragging
           /\ Called("handle_mouse_leave"))
           => HoverView' = HoverView]_vars

\* The pointer has entered a widget that shows its controls, and the clock has
\* moved on since: a second handle_mouse_enter now is the call in a row.
C18_Witness ==
    /\ last_call.op = "handle_mouse_enter"
    /\ ui_state.is_hovered
    /\ ~ui_state.is_dragging
    /\ get_visible_controls = <<"pause", "reset">>
    /\ window_transparency = config.display.hover_transparency
    /\ last_interaction < now

\* C19: window_transparency() returns config.display.hover_transparency
\* whenever is_hovered or is_dragging is true and config.display.transparency
\* otherwise; it takes no intermediate value.
C19_WindowTransparency ==
    /\ (ui_state.is_hovered \/ ui_state.is_dragging)
           => window_transparency = config.display.hover_transparency
    /\ (~ui_state.is_hovered /\ ~ui_state.is_dragging)
           => window_transparency = config.display.transparency
    /\ window_transparency \in
           {config.display.hover_transparency, config.display.transparency}

\* The widget is dragged without being hovered and shows the hover
\* transparency, which differs from the base one.
C19_Witness ==
    /\ ui_state.is_dragging
    /\ ~ui_state.is_hovered
    /\ config.display.hover_transparency # config.display.transparency
    /\ window_transparency = config.display.hover_transparency

\* alpha is a number below 0.0 or above 1.0.
OutsideUnit(alpha) == alpha # NaN /\ (alpha < 0 \/ alpha > 100)

\* alpha is a number from 0.0 to 1.0.
InsideUnit(alpha) == alpha # NaN /\ 0 <= alpha /\ alpha <= 100

StartStopPressed ==
    /\ Called("handle_hotkey")
    /\ Some(last_call'.keys) = config.hotkeys.start_stop
    /\ Some(last_call'.keys) # config.hotkeys.toggle_visibility

\* C14: handle_hotkey with the configured start_stop string: when the timer is
\* Stopped or Finished it starts the timer with the last duration that was
\* passed to a successful start (5 minutes if there is none); when Running it
\* pauses the timer; when Paused it resumes it.
C14_Original ==
    [][StartStopPressed
       => /\ timer.state.kind \in {"Stopped", "Finished"} =>
                 timer'.state = Running(now, IF last_started = None
                                             THEN DefaultHotkeyDuration
                                             ELSE last_started)
          /\ timer.state.kind = "Running" =>
                 timer'.state = Paused(remaining_time(timer, now))
          /\ timer.state.kind = "Paused" =>
                 timer'.state = Running(now, timer.state.remaining_duration)]_vars

\* What one call of handle_hotkey may do, by the slot it acts on.
TogglesVisibility ==
    /\ ui_state' = [ui_state EXCEPT !.is_visible = ~ui_state.is_visible]
    /\ UNCHANGED <<timer, notification_triggered, config, config_dirty>>

StartsOrStops ==
    /\ timer'.state.kind =
           IF timer.state.kind = "Running" THEN "Paused" ELSE "Running"
    /\ last_interaction' = now
    /\ UNCHANGED <<ui_state, notification_triggered, config, config_dirty>>

Resets ==
    /\ timer' = Timer_new
    /\ notification_triggered' = FALSE
    /\ last_interaction' = now
    /\ UNCHANGED <<ui_state, config, config_dirty>>

\* C15: handle_hotkey(keys) acts on a slot only when keys equals that slot's
\* configured string exactly; one call performs at most one action, taken from
\* the first matching slot in the order toggle_visibility, start_stop, reset
\* (also when two slots hold the same string); a string that matches no
\* configured slot, or a slot that is unset, leaves the whole AppState
\* unchanged.
C15_HotkeyDispatch ==
    [][Called("handle_hotkey")
       => LET keys == last_call'.keys
              hotkeys == config.hotkeys
          IN  IF hotkeys.toggle_visibility = Some(keys) THEN TogglesVisibility
              ELSE IF hotkeys.start_stop = Some(keys) THEN StartsOrStops
              ELSE IF hotkeys.reset = Some(keys) THEN Resets
              ELSE app_state' = app_state]_vars

\* The string held by both toggle_visibility and start_stop has just been
\* pressed while the window was visible: the window is hidden and the timer,
\* which an earlier hotkey paused, has not moved.
C15_Witness ==
    /\ last_call.op = "handle_hotkey"
    /\ last_call.keys = "Ctrl+Alt+S"
    /\ config.hotkeys.toggle_visibility = Some("Ctrl+Alt+S")
    /\ config.hotkeys.start_stop = Some("Ctrl+Alt+S")
    /\ ~ui_state.is_visible
    /\ timer.state.kind = "Paused"

\* A string that differs from the start_stop string in case only has just been
\* pressed, with start_stop the only slot that could match: nothing happened.
C15_WitnessUnmatched ==
    /\ last_call.op = "handle_hotkey"
    /\ last_call.keys = "ctrl+alt+s"
    /\ config.hotkeys.start_stop = Some("Ctrl+Alt+S")
    /\ timer.state.kind = "Stopped"
    /\ last_interaction = None

\* C21: after set_transparency(alpha) succeeds, window_transparency() returns
\* alpha, in every reachable combination of hover and drag state.
C21_Original ==
    [][(Called("set_transparency") /\ last_call'.result = "Ok")
       => window_transparency' = last_call'.arg]_vars

\* C28: get_visible_controls() returns the empty list whenever
\* are_controls_visible() (= controls_visible AND config.display.show_controls)
\* is false; otherwise it returns exactly {start, reset} when the timer is
\* Stopped or Finished, {pause, reset} when Running and {resume, reset} when
\* Paused.
C28_VisibleControls ==
    LET shown == ui_state.controls_visible /\ config.display.show_controls
        controls == {get_visible_controls[i] : i \in 1 .. Len(get_visible_controls)}
    IN  /\ are_controls_visible = shown
        /\ ~shown => get_visible_controls = <<>>
        /\ shown =>
               /\ Len(get_visible_controls) = 2
               /\ controls = CASE timer.state.kind \in {"Stopped", "Finished"} ->
                                      {"start", "reset"}
                               [] timer.state.kind = "Running" -> {"pause", "reset"}
                               [] timer.state.kind = "Paused" -> {"resume", "reset"}

\* The pointer is over a widget with a paused timer whose configuration hides
\* the controls: no control is listed.
C28_Witness ==
    /\ ui_state.controls_visible
    /\ ~config.display.show_controls
    /\ timer.state.kind = "Paused"
    /\ get_visible_controls = <<>>

MonitorMadeCurrent(dc, x, y) ==
    LET holds(i) == LET m == dc.monitors[i].bounds
                    IN  /\ m[1] <= x /\ x < m[1] + m[3]
                        /\ m[2] <= y /\ y < m[2] + m[4]
        found == {i \in 1 .. Len(dc.monitors) : holds(i)}
        first == CHOOSE i \in found : \A j \in found : i <= j
    IN  IF found = {} THEN dc
        ELSE [dc EXCEPT !.current_monitor = first - 1,
                        !.dpi_scale = dc.monitors[first].scale_factor]

OnlyPositionMoved ==
    config' = [config EXCEPT !.display.position = config'.display.position]

DragMoveFollowsOffset ==
    Called("handle_drag_move")
    => IF ui_state.drag_offset # Nothing
       THEN LET target == <<query'.args[1] + ui_state.drag_offset[1][1],
                            query'.args[2] + ui_state.drag_offset[1][2]>>
                constrained == constrain_position(display_context, target[1],
                                                  target[2], 200, 100)
            IN  /\ config'.display.position = constrained
                /\ constrained = target =>
                       <<config'.display.position[1] - query'.args[1],
                         config'.display.position[2] - query'.args[2]>> =
                           ui_state.drag_offset[1]
       ELSE UNCHANGED <<app_state, display_context>>

\* C23: handle_drag_start(px, py) sets is_dragging and records offset = window
\* position minus pointer; every later handle_drag_move(qx, qy) during that
\* drag sets the window position to constrain_position(qx + offset.x,
\* qy + offset.y, 200, 100), so the pointer-to-window offset is preserved
\* whenever the target is within bounds; handle_drag_move with no recorded
\* offset changes nothing.
C23_Original ==
    [][/\ Called("handle_drag_start")
           => /\ ui_state'.is_dragging
              /\ ui_state'.drag_offset =
                     Some(<<config.display.position[1] - query'.args[1],
                            config.display.position[2] - query'.args[2]>>)
       /\ DragMoveFollowsOffset]_vars


\* The monitor constrain_position clamps against, by the priority of C25: the
\* first monitor that holds (x, y), else the current one, else the primary
\* one, else the first of the list.
ChosenMonitor(dc, x, y) ==
    LET holds(i) == LET m == dc.monitors[i].bounds
                    IN  /\ m[1] <= x /\ x < m[1] + m[3]
                        /\ m[2] <= y /\ y < m[2] + m[4]
        holding == {i \in 1 .. Len(dc.monitors) : holds(i)}
        primaries == {i \in 1 .. Len(dc.monitors) : dc.monitors[i].is_primary}
        least(S) == CHOOSE i \in S : \A j \in S : i <= j
    IN  IF holding # {} THEN dc.monitors[least(holding)]
        ELSE IF dc.current_monitor + 1 \in 1 .. Len(dc.monitors)
        THEN dc.monitors[dc.current_monitor + 1]
        ELSE IF primaries # {} THEN dc.monitors[least(primaries)]
        ELSE dc.monitors[1]

\* The step is a call of constrain_position on a context with a monitor.
ConstrainedOnMonitor ==
    Called("constrain_position") /\ display_context.monitors # <<>>

\* C24: whenever at least one monitor exists, for any input coordinates
\* (including far out-of-bounds ones) and any window size, the result (x', y')
\* of constrain_position(x, y, w, h) satisfies
\* m.x <= x' <= m.x + m.width - max(w, 50) and
\* m.y <= y' <= m.y + m.height - max(h, 50) for the chosen monitor m.
C24_Original ==
    [][ConstrainedOnMonitor
       => LET m == ChosenMonitor(display_context, query'.args[1], query'.args[2]).bounds
          IN  \A axis \in 1 .. 2 :
                  /\ m[axis] <= query'.value[axis]
                  /\ query'.value[axis] <=
                         m[axis] + m[axis + 2] - max(query'.args[axis + 2], 50)]_vars

\* C24 (amended): the result never exceeds m.x + m.width - max(w, 50) and
\* m.y + m.height - max(h, 50); it is no less than m.x and m.y on every axis
\* on which the window, taken at least 50 wide and high, fits in the monitor,
\* and on an axis on which it does not fit the result is that upper limit,
\* which lies before the monitor's edge.
C24_WithinMonitor ==
    [][ConstrainedOnMonitor
       => LET m == ChosenMonitor(display_context, query'.args[1], query'.args[2]).bounds
          IN  \A axis \in 1 .. 2 :
                  LET limit == m[axis] + m[axis + 2] - max(query'.args[axis + 2], 50)
                  IN  /\ query'.value[axis] <= limit
                      /\ max(query'.args[axis + 2], 50) <= m[axis + 2]
                             => m[axis] <= query'.value[axis]
                      /\ max(query'.args[axis + 2], 50) > m[axis + 2]
                             => query'.value[axis] = limit]_vars

\* A point far beyond the only monitor has just been constrained for the
\* 200 x 100 window: the result is the monitor's last position with room.
C24_Witness ==
    /\ last_call.op = "constrain_position"
    /\ display_context.monitors = <<MonitorInfo_new(<<0, 0, 400, 300>>, 4, TRUE)>>
    /\ query.args = <<50000, 50000, 200, 100>>
    /\ query.value = <<200, 200>>

C26_UpdateCurrentMonitor ==
    [][Called("update_current_monitor")
       => display_context' =
              MonitorMadeCurrent(display_context, query'.args[1], query'.args[2])]_vars

\* The point on the first monitor's right edge, which only the second monitor
\* contains, has just been reported: the second monitor is current, at 150 %.
C26_Witness ==
    /\ last_call.op = "update_current_monitor"
    /\ query.args = <<400, 50>>
    /\ display_context.monitors = <<MonitorInfo_new(<<0, 0, 400, 300>>, 4, TRUE),
                                    MonitorInfo_new(<<300, 0, 400, 300>>, 6, FALSE)>>
    /\ display_context.current_monitor = 1
    /\ display_context.dpi_scale = 6

\* C27: for all integer coordinates, physical_to_logical(logical_to_physical(p))
\* equals p when the active DPI scale is 1.0, and for every other active DPI
\* scale differs from p by at most 1 unit on each axis.
C27_Original ==
    [][(/\ last_call.op = "logical_to_physical"
        /\ Called("physical_to_logical")
        /\ query'.args = query.value)
       => \A axis \in 1 .. 2 :
              LET p == query.args[axis]
                  back == query'.value[axis]
              IN  /\ display_context.dpi_scale = 4 => back = p
                  /\ back - p \in -1 .. 1]_vars

C32_NeverEarly ==
    [][(timer'.state.kind = "Finished" /\ timer.state.kind # "Finished")
       => /\ TickedNow
          /\ last_call'.state_changed
          /\ last_started # None
          /\ run_time >= last_started]_vars

\* A tick has just finished a countdown of two intervals that was resumed one
\* interval ago: it ran for two intervals, one of them before the pause.
C32_Witness ==
    /\ timer.state.kind = "Finished"
    /\ last_call.op = "tick"
    /\ last_call.state_changed
    /\ last_started = 2
    /\ run_time = 2
    /\ last_interaction = now - 1
    /\ timer.completion_time = now

\* C33: in every reachable timer state, completion_time is set exactly when the
\* state is Finished: the tick that finishes the countdown sets it, and start
\* and reset (the only ways out of Finished) clear it.
C33_CompletionTime ==
    /\ [](timer.completion_time # None <=> timer.state.kind = "Finished")
    /\ [][/\ (timer'.state.kind = "Finished" /\ timer.state.kind # "Finished")
             => (TickedNow /\ timer'.completion_time = now)
          /\ (timer.state.kind = "Finished" /\ timer'.state.kind # "Finished")
             => (/\ Called("start") \/ Called("reset")
                 /\ timer'.completion_time = None)]_vars

\* A reset has just stopped a timer that the host had seen Finished: the
\* completion time is cleared.
C33_Witness ==
    /\ last_call.op = "reset"
    /\ last_timer_state = "Finished"
    /\ timer.state = Stopped
    /\ timer.completion_time = None

\* C34: in every reachable timer state: when the state is Stopped,
\* original_duration is 0; when it is Running, Paused or Finished,
\* 0 < original_duration <= 24h; and the remaining_duration stored in Running
\* or Paused is never greater than original_duration.
C34_OriginalDuration ==
    /\ timer.state.kind = "Stopped" => timer.original_duration = 0
    /\ timer.state.kind \in {"Running", "Paused", "Finished"}
           => (0 < timer.original_duration /\ timer.original_duration <= MaxDuration)
    /\ timer.state.kind \in {"Running", "Paused"}
           => timer.state.remaining_duration <= timer.original_duration

\* A countdown of two intervals is paused with one interval left.
C34_Witness ==
    /\ timer.state = Paused(1)
    /\ timer.original_duration = 2

\* C35: when the timer is driven only through AppState operations,
\* notification_triggered is true exactly when the timer state is Finished: it
\* becomes true on the tick that finishes the countdown and is false again as
\* soon as the timer leaves Finished (by reset_timer, start_timer or the
\* start/stop hotkey).
C35_Original == notification_triggered <=> timer.state.kind = "Finished"

\* C36: in every state reachable from the default configuration through
\* set_transparency and the hover/drag handlers, hover_transparency >=
\* transparency, so entering hover or starting a drag never makes
\* window_transparency() smaller than it was when idle.  (A NaN transparency
\* is not counted as a violation here.)
C36_Original ==
    /\ [](~f32_lt(config.display.hover_transparency, config.display.transparency))
    /\ [][(Called("handle_mouse_enter") \/ Called("handle_drag_start"))
          => ~f32_lt(window_transparency', window_transparency)]_vars

\* C39: in the host update loop, every transition of the timer into Finished
\* plays the notification sound exactly once, for the first countdown and for
\* every later countdown completed in the same process (after a reset or
\* restart).
C39_Original ==
    [][Called("update")
       => (last_call'.played
           <=> (timer'.state.kind = "Finished" /\ timer.state.kind # "Finished"))]_vars

\* The controls listed by get_visible_controls().
Listed == {get_visible_controls[i] : i \in 1 .. Len(get_visible_controls)}

\* C37: in every reachable AppState, each control listed by
\* get_visible_controls() names an operation that succeeds in that state:
\* pause_timer succeeds when pause is listed, resume_timer when resume is
\* listed, reset_timer when reset is listed, and start_timer with any duration
\* in (0, 24h] when start is listed.
C37_ListedControlsSucceed ==
    [][/\ (Called("pause") /\ "pause" \in Listed)
             => (last_call'.result = "Ok" /\ timer'.state.kind = "Paused")
       /\ (Called("resume") /\ "resume" \in Listed)
             => (last_call'.result = "Ok" /\ timer'.state.kind = "Running")
       /\ (Called("reset") /\ "reset" \in Listed)
             => (last_call'.result = "Ok" /\ timer'.state.kind = "Stopped")
       /\ (Called("start") /\ "start" \in Listed /\ ValidDuration(last_call'.arg))
             => (last_call'.result = "Ok" /\ timer'.state.kind = "Running")]_vars

\* With the controls shown, a start of the longest legal duration has just
\* succeeded: pause is the control listed now.
C37_Witness ==
    /\ last_call.op = "start"
    /\ last_call.arg = MaxDuration
    /\ last_call.result = "Ok"
    /\ are_controls_visible
    /\ Listed = {"pause", "reset"}

\* C38: in every AppState reachable through the AppState operations,
\* controls_visible equals is_hovered: a drag started without a preceding
\* mouse enter raises the transparency to the hover level but does not make
\* the controls visible.
C38_ControlsFollowHover ==
    /\ [](ui_state.controls_visible = ui_state.is_hovered)
    /\ [][(Called("handle_drag_start") /\ ~ui_state.is_hovered)
          => (/\ window_transparency' = config.display.hover_transparency
              /\ ~ui_state'.controls_visible
              /\ ~are_controls_visible')]_vars

\* A drag has just started on a widget the pointer never entered: the hover
\* transparency applies and no control is listed.
C38_Witness ==
    /\ last_call.op = "handle_drag_start"
    /\ ui_state.is_dragging
    /\ ~ui_state.is_hovered
    /\ ~ui_state.controls_visible
    /\ window_transparency = config.display.hover_transparency
    /\ window_transparency # config.display.transparency
    /\ get_visible_controls = <<>>

\* No two monitors share a point, and each is at least max(w, 50) wide and
\* max(h, 50) high.
ApartAndLarge(dc, w, h) ==
    LET n == Len(dc.monitors)
        m(i) == dc.monitors[i].bounds
    IN  /\ \A i \in 1 .. n, j \in 1 .. n :
               i # j => \/ m(i)[1] + m(i)[3] <= m(j)[1]
                        \/ m(j)[1] + m(j)[3] <= m(i)[1]
                        \/ m(i)[2] + m(i)[4] <= m(j)[2]
                        \/ m(j)[2] + m(j)[4] <= m(i)[2]
        /\ \A i \in 1 .. n : m(i)[3] >= max(w, 50) /\ m(i)[4] >= max(h, 50)

\* Some monitor holds (x, y) with room for a w by h window placed there.
HasRoom(dc, x, y, w, h) ==
    \E i \in 1 .. Len(dc.monitors) :
        LET m == dc.monitors[i].bounds
        IN  /\ m[1] <= x /\ x <= m[1] + m[3] - max(w, 50)
            /\ m[2] <= y /\ y <= m[2] + m[4] - max(h, 50)

\* C40: constrain_position is idempotent for a fixed window size when monitors
\* do not overlap and each is at least as large as max(w, 50) by max(h, 50):
\* constraining an already constrained position returns it unchanged, and a
\* position that lies inside a monitor with room for the window is returned
\* unchanged.
C40_Idempotent ==
    [][(/\ Called("constrain_position")
        /\ ApartAndLarge(display_context, query'.args[3], query'.args[4]))
       => /\ (/\ last_call.op = "constrain_position"
              /\ query'.args = query.value \o <<query.args[3], query.args[4]>>)
                 => query'.value = query.value
          /\ HasRoom(display_context, query'.args[1], query'.args[2],
                     query'.args[3], query'.args[4])
                 => query'.value = <<query'.args[1], query'.args[2]>>]_vars

\* With two monitors apart, the position to which a far point was constrained
\* on the second, small one has just been constrained again, and is unchanged.
C40_Witness ==
    /\ last_call.op = "constrain_position"
    /\ Len(display_context.monitors) = 2
    /\ ApartAndLarge(display_context, 30, 30)
    /\ display_context.current_monitor = 1
    /\ query.args = <<100, 330, 30, 30>>
    /\ query.value = <<100, 330>>
====
